---- MODULE Spec2Model ----
(***************************************************************************)
(* Model of services/usb-test/src/main.rs of xous-core: the USB endpoint   *)
(* space allocator (alloc_inner / dealloc_inner), its unit test            *)
(* (tests::test_alloc) and the service's dispatch loop (xmain); and of the *)
(* PredictionTriggers conversions of services/ime-plugin-api/src/lib.rs.   *)
(***************************************************************************)
EXTENDS Integers, Sequences, FiniteSets, TLC

VARIABLES
    allocs,           \* the allocation table, BTreeMap<u32, u32>
    overflow_checks,  \* the build traps u32 overflow (debug) or wraps (release)
    panicked,         \* a panic has unwound the caller
    last,             \* the last allocator call: operation, argument, result, table before
    huge_calls,       \* how many requests of 2^16 bytes or more were made
    test_pc,          \* tests::test_alloc: the next step, 0 when the test is not run
    results,          \* tests::test_alloc: what the structured calls returned
    tracker,          \* tests::test_alloc: Vec<u32> of offsets of the random phase
    rounds,           \* tests::test_alloc: iterations of the random loop done
    pc,               \* xmain: where the dispatch thread is
    queue,            \* xmain: the messages sent to usbtest_sid and not yet received
    cmdline,          \* xmain: the command line, a String, as its code points
    kbd_suspended,    \* kbd is between suspend() and resume()
    usb_suspended,    \* usbtest is between suspend() and resume()
    connected,        \* usbtest: the device core is connected
    msg,              \* xmain: the opcode of the message received last
    calls,            \* the calls on kbd, usbtest, susres, xns and xous made by
                      \* the suspend cycle or the clean-up that ran last
    line,             \* the characters pushed since the last carriage return
    ime_pc,           \* ime-plugin-api: how far a conversion round trip has come
    triggers,         \* ime-plugin-api: a PredictionTriggers value
    code,             \* ime-plugin-api: a usize code
    given             \* ime-plugin-api: the values the round trip started from

alloc_vars == <<allocs, overflow_checks, panicked, last, huge_calls>>

test_vars == <<test_pc, results, tracker, rounds>>

loop_vars == <<pc, queue, msg, cmdline, kbd_suspended, usb_suspended,
               connected, calls, line>>

ime_vars == <<ime_pc, triggers, code, given>>

vars == <<alloc_vars, test_vars, loop_vars, ime_vars>>

(***************************************************************************)
(* u32 arithmetic.  A u32 is kept as <<hi, lo>>, two 16-bit halves, so     *)
(* that the full 32-bit width of the source's arithmetic is preserved.     *)
(***************************************************************************)
Half == 2^16

U32(hi, lo) == <<hi, lo>>

\* the u32 of a small natural number (below 2^31)
ToU32(n) == <<n \div Half, n % Half>>

Hi(x) == x[1]

Lo(x) == x[2]

Le(a, b) == Hi(a) < Hi(b) \/ (Hi(a) = Hi(b) /\ Lo(a) <= Lo(b))

Lt(a, b) == Hi(a) < Hi(b) \/ (Hi(a) = Hi(b) /\ Lo(a) < Lo(b))

\* a + b in u32: the wrapped sum, and whether the true sum exceeds 2^32 - 1
Add(a, b) ==
    LET lo == Lo(a) + Lo(b)
        hi == Hi(a) + Hi(b) + (lo \div Half)
    IN  [val |-> <<hi % Half, lo % Half>>, overflow |-> hi >= Half]

\* a - b in u32, for b <= a
Sub(a, b) ==
    IF Lo(a) >= Lo(b) THEN <<Hi(a) - Hi(b), Lo(a) - Lo(b)>>
    ELSE <<Hi(a) - Hi(b) - 1, Lo(a) + Half - Lo(b)>>

\* x & 0xF
LowNibble(x) == Lo(x) % 16

\* x & !0xF
ClearLowNibble(x) == <<Hi(x), Lo(x) - (Lo(x) % 16)>>

(***************************************************************************)
(* Option<u32>                                                             *)
(***************************************************************************)
None == [some |-> FALSE, val |-> <<0, 0>>]

Some(x) == [some |-> TRUE, val |-> x]

(***************************************************************************)
(* The allocator.  allocs is the BTreeMap<u32, u32>: a function from the   *)
(* live offsets to the stored lengths.                                     *)
(***************************************************************************)
START_OFFSET == ToU32(72 + 8)

END_OFFSET == ToU32(65280)

EmptyMap == [k \in {} |-> <<0, 0>>]

\* BTreeMap::insert: adds the key, or replaces the value of a key present
Insert(m, k, v) == [x \in (DOMAIN m) \cup {k} |-> IF x = k THEN v ELSE m[x]]

\* BTreeMap::remove
Remove(m, k) == [x \in (DOMAIN m) \ {k} |-> m[x]]

\* the keys in ascending order, as BTreeMap::iter yields them
RECURSIVE Ascending(_)
Ascending(S) ==
    IF S = {} THEN <<>>
    ELSE LET least == CHOOSE k \in S : \A j \in S : Le(k, j)
         IN  <<least>> \o Ascending(S \ {least})

\* RoundLength with the rounding left out
RoundLengthExact(length) == [val |-> length, overflow |-> FALSE]

\* line 182: the length rounded up to the next multiple of 16
RoundLength(length) ==
    IF LowNibble(length) = 0 THEN [val |-> length, overflow |-> FALSE]
    ELSE LET s == Add(length, ToU32(16))
         IN  [val |-> ClearLowNibble(s.val), overflow |-> s.overflow]

\* Scan without the test for a hole of lines 185-190: it always ends at the tail
RECURSIVE ScanNoHole(_, _, _, _, _)
ScanNoHole(m, keys, alloc_offset, requested, checks) ==
    IF keys = <<>> THEN [panic |-> FALSE, alloc_offset |-> alloc_offset]
    ELSE LET offset == Head(keys)
             length == RoundLength(m[offset])
             next   == Add(offset, length.val)
         IN  IF (length.overflow \/ next.overflow) /\ checks
               THEN [panic |-> TRUE, alloc_offset |-> alloc_offset]
             ELSE IF ~Le(alloc_offset, offset)
               THEN [panic |-> TRUE, alloc_offset |-> alloc_offset]
             ELSE ScanNoHole(m, Tail(keys), next.val, requested, checks)

\* lines 180-192: the scan over the entries that remain in keys.  checks is
\* whether the build traps arithmetic overflow (debug) or wraps (release).
RECURSIVE Scan(_, _, _, _, _)
Scan(m, keys, alloc_offset, requested, checks) ==
    IF keys = <<>> THEN [panic |-> FALSE, alloc_offset |-> alloc_offset]
    ELSE LET offset == Head(keys)
             length == RoundLength(m[offset])
             next   == Add(offset, length.val)
         IN  IF length.overflow /\ checks
               THEN [panic |-> TRUE, alloc_offset |-> alloc_offset]
             ELSE IF ~Le(alloc_offset, offset)
               THEN [panic |-> TRUE, alloc_offset |-> alloc_offset]
             ELSE IF Lt(alloc_offset, offset)
                     /\ Le(requested, Sub(offset, alloc_offset))
               THEN [panic |-> FALSE, alloc_offset |-> alloc_offset]
             ELSE IF next.overflow /\ checks
               THEN [panic |-> TRUE, alloc_offset |-> alloc_offset]
             ELSE Scan(m, Tail(keys), next.val, requested, checks)

\* alloc_inner with the requested == 0 test of lines 176-178 left out
alloc_inner_no_zero_test(m, requested, checks) ==
    LET s   == Scan(m, Ascending(DOMAIN m), START_OFFSET, requested, checks)
        end == Add(s.alloc_offset, requested)
    IN  IF s.panic \/ (end.overflow /\ checks)
          THEN [panic |-> TRUE, ret |-> None, allocs |-> m]
        ELSE IF Le(end.val, END_OFFSET)
          THEN [panic |-> FALSE, ret |-> Some(s.alloc_offset),
                allocs |-> Insert(m, s.alloc_offset, requested)]
        ELSE [panic |-> FALSE, ret |-> None, allocs |-> m]

\* lines 175-199.  The result: did it panic, the value returned, the map after
alloc_inner(m, requested, checks) ==
    IF requested = ToU32(0)
      THEN [panic |-> FALSE, ret |-> None, allocs |-> m]
    ELSE LET s   == Scan(m, Ascending(DOMAIN m), START_OFFSET, requested, checks)
             end == Add(s.alloc_offset, requested)
         IN  IF s.panic \/ (end.overflow /\ checks)
               THEN [panic |-> TRUE, ret |-> None, allocs |-> m]
             ELSE IF Le(end.val, END_OFFSET)
               THEN [panic |-> FALSE, ret |-> Some(s.alloc_offset),
                     allocs |-> Insert(m, s.alloc_offset, requested)]
             ELSE [panic |-> FALSE, ret |-> None, allocs |-> m]

\* dealloc_inner reporting success whether or not the key was present
dealloc_inner_always_true(m, offset) ==
    [ret |-> TRUE, allocs |-> Remove(m, offset)]

\* lines 200-202
dealloc_inner(m, offset) ==
    [ret |-> offset \in DOMAIN m, allocs |-> Remove(m, offset)]

(***************************************************************************)
(* Spec: any interleaving of allocate and free calls on one table          *)
(***************************************************************************)
\* most live entries the model lets the table hold
MaxAllocs == 2

\* most requests of 2^16 bytes or more (each can wrap the u32 arithmetic and
\* move the table by one step)
MaxHuge == 1

\* the sizes requested: zero, aligned and unaligned small sizes, all of the
\* space, more than the space, and sizes near 2^32 (0xFFFFFFF0, 0xFFFFFFFF)
Requests ==
    { ToU32(0), ToU32(1), ToU32(16), ToU32(48), ToU32(65200), ToU32(65280),
      U32(65535, 65520), U32(65535, 65535) }

\* the offsets freed besides the live bases: the first base (also after it
\* was freed), an interior address and an offset below start
StrayOffsets == { START_OFFSET, ToU32(81), ToU32(0) }

NoCall == [op |-> "none", arg |-> ToU32(0), ret |-> None, freed |-> FALSE,
           before |-> EmptyMap]

AllocInit ==
    /\ allocs = EmptyMap
    /\ overflow_checks \in BOOLEAN
    /\ panicked = FALSE
    /\ last = NoCall
    /\ huge_calls = 0

Allocate(requested) ==
    /\ ~panicked
    /\ Hi(requested) > 0 => huge_calls < MaxHuge
    /\ huge_calls' = IF Hi(requested) > 0 THEN huge_calls + 1 ELSE huge_calls
    /\ LET r == alloc_inner(allocs, requested, overflow_checks)
       IN  /\ Cardinality(DOMAIN r.allocs) <= MaxAllocs
           /\ allocs' = r.allocs
           /\ panicked' = r.panic
           /\ last' = [op |-> "allocate", arg |-> requested, ret |-> r.ret,
                       freed |-> FALSE, before |-> allocs]
    /\ UNCHANGED <<overflow_checks, test_vars, loop_vars, ime_vars>>

Free(offset) ==
    /\ ~panicked
    /\ LET r == dealloc_inner(allocs, offset)
       IN  /\ allocs' = r.allocs
           /\ last' = [op |-> "free", arg |-> offset, ret |-> None,
                       freed |-> r.ret, before |-> allocs]
    /\ UNCHANGED <<overflow_checks, panicked, huge_calls, test_vars, loop_vars,
                   ime_vars>>

AllocNext ==
    \/ \E requested \in Requests : Allocate(requested)
    \/ \E offset \in (DOMAIN allocs) \cup StrayOffsets : Free(offset)

(***************************************************************************)
(* SpecTest: tests::test_alloc, the structured calls of lines 215-254, the *)
(* random calls of lines 256-274 and the final check of lines 276-284      *)
(***************************************************************************)
\* START_OFFSET + n
At(n) == Add(START_OFFSET, ToU32(n)).val

CallAlloc(requested, expected) ==
    [op |-> "alloc", arg |-> requested, ret |-> expected, freed |-> FALSE]

CallDealloc(offset, expected) ==
    [op |-> "dealloc", arg |-> offset, ret |-> None, freed |-> expected]

\* the calls of lines 216-245 with the values their assert_eq! expect
Script ==
    << CallAlloc(ToU32(128), Some(START_OFFSET)),
       CallAlloc(ToU32(64), Some(At(128))),
       CallAlloc(ToU32(256), Some(At(128 + 64))),
       CallAlloc(ToU32(128), Some(At(128 + 64 + 256))),
       CallAlloc(ToU32(128), Some(At(128 + 64 + 256 + 128))),
       CallAlloc(ToU32(128), Some(At(128 + 64 + 256 + 128 + 128))),
       CallAlloc(ToU32(65280), None),
       CallDealloc(At(128 + 64), TRUE),
       CallAlloc(ToU32(128), Some(At(128 + 64))),
       CallDealloc(At(128 + 64 + 256 + 128), TRUE),
       CallAlloc(ToU32(128), Some(At(128 + 64 + 128))),
       CallAlloc(ToU32(256), Some(At(128 + 64 + 256 + 128 + 128 + 128))),
       CallAlloc(ToU32(128), Some(At(128 + 64 + 256 + 128))),
       CallAlloc(ToU32(64), Some(At(128 + 64 + 256 + 128 + 128 + 128 + 256))) >>

\* the steps after which the test walks the table (lines 228-232, 250-254)
WalkAfter == {8, 14}

\* most iterations of the random loop (10240 in the source)
MaxRounds == 3

\* the sizes of the random phase, rng.next_u32() % 256
RandomSizes == { ToU32(0), ToU32(1), ToU32(128), ToU32(255) }

\* the loops of lines 228-232, 250-254 and 279-284: no entry starts inside the
\* entry before it, and with aligned also that every offset is a multiple of 16
RECURSIVE Walk(_, _, _, _)
Walk(m, keys, last_alloc, aligned) ==
    IF keys = <<>> THEN TRUE
    ELSE LET offset == Head(keys)
         IN  /\ Le(last_alloc, offset)
             /\ aligned => LowNibble(offset) = 0
             /\ Walk(m, Tail(keys), Add(offset, m[offset]).val, aligned)

Consistent(m, aligned) == Walk(m, Ascending(DOMAIN m), ToU32(0), aligned)

\* v.remove(index) of a Vec
RemoveAt(v, index) == SubSeq(v, 1, index - 1) \o SubSeq(v, index + 1, Len(v))

TestIdle ==
    /\ test_pc = 0
    /\ results = <<>>
    /\ tracker = <<>>
    /\ rounds = 0

TestInit ==
    /\ AllocInit
    /\ test_pc = 1
    /\ results = <<>>
    /\ tracker = <<>>
    /\ rounds = 0

\* one call of lines 216-245 with its assert_eq!
TestStep ==
    /\ ~panicked
    /\ test_pc \in 1..Len(Script)
    /\ LET call == Script[test_pc]
           a == alloc_inner(allocs, call.arg, overflow_checks)
           d == dealloc_inner(allocs, call.arg)
           got == IF call.op = "alloc"
                    THEN [call EXCEPT !.ret = a.ret]
                    ELSE [call EXCEPT !.freed = d.ret]
           after == IF call.op = "alloc" THEN a.allocs ELSE d.allocs
       IN  /\ allocs' = after
           /\ results' = Append(results, got)
           /\ panicked' = \/ call.op = "alloc" /\ a.panic
                          \/ got # call
                          \/ test_pc \in WalkAfter /\ ~Consistent(after, FALSE)
    /\ test_pc' = test_pc + 1
    /\ UNCHANGED <<overflow_checks, last, huge_calls, tracker, rounds, loop_vars,
                   ime_vars>>

\* lines 259-265: the dealloc branch of the random loop
TestRandomDealloc ==
    /\ ~panicked
    /\ test_pc = Len(Script) + 1
    /\ rounds < MaxRounds
    /\ rounds' = rounds + 1
    /\ IF Len(tracker) > 0
         THEN \E i \in 1..Len(tracker) :
                 LET d == dealloc_inner(allocs, tracker[i])
                 IN  /\ tracker' = RemoveAt(tracker, i)
                     /\ allocs' = d.allocs
                     /\ panicked' = ~d.ret
         ELSE UNCHANGED <<tracker, allocs, panicked>>
    /\ UNCHANGED <<overflow_checks, last, huge_calls, test_pc, results, loop_vars,
                   ime_vars>>

\* lines 266-273: the alloc branch of the random loop
TestRandomAlloc ==
    /\ ~panicked
    /\ test_pc = Len(Script) + 1
    /\ rounds < MaxRounds
    /\ rounds' = rounds + 1
    /\ \E req \in RandomSizes :
          LET a == alloc_inner(allocs, req, overflow_checks)
          IN  /\ allocs' = a.allocs
              /\ panicked' = a.panic
              /\ tracker' = IF a.ret.some THEN Append(tracker, a.ret.val)
                                          ELSE tracker
    /\ UNCHANGED <<overflow_checks, last, huge_calls, test_pc, results, loop_vars,
                   ime_vars>>

\* lines 276-284: the check that ends the test
TestFinalCheck ==
    /\ ~panicked
    /\ test_pc = Len(Script) + 1
    /\ rounds = MaxRounds
    /\ test_pc' = Len(Script) + 2
    /\ panicked' = ~Consistent(allocs, TRUE)
    /\ UNCHANGED <<allocs, overflow_checks, last, huge_calls, results, tracker,
                   rounds, loop_vars, ime_vars>>

TestNext ==
    \/ TestStep
    \/ TestRandomDealloc
    \/ TestRandomAlloc
    \/ TestFinalCheck

(***************************************************************************)
(* SpecScenario: the calls of the concrete scenario of section 8 on an     *)
(* empty table, followed by any calls                                      *)
(***************************************************************************)
ScenarioCalls ==
    << CallAlloc(ToU32(128), None), CallAlloc(ToU32(64), None),
       CallAlloc(ToU32(256), None), CallAlloc(ToU32(128), None),
       CallAlloc(ToU32(128), None), CallAlloc(ToU32(128), None),
       CallAlloc(ToU32(65280), None), CallDealloc(ToU32(208), FALSE),
       CallAlloc(ToU32(128), None), CallDealloc(ToU32(656), FALSE),
       CallAlloc(ToU32(128), None) >>

\* the next call of the scenario; its result is appended to results
ScenarioStep ==
    /\ ~panicked
    /\ test_pc \in 1..Len(ScenarioCalls)
    /\ LET call == ScenarioCalls[test_pc]
           a == alloc_inner(allocs, call.arg, overflow_checks)
           d == dealloc_inner(allocs, call.arg)
       IN  IF call.op = "alloc"
             THEN /\ allocs' = a.allocs
                  /\ panicked' = a.panic
                  /\ results' = Append(results, [call EXCEPT !.ret = a.ret])
             ELSE /\ allocs' = d.allocs
                  /\ panicked' = FALSE
                  /\ results' = Append(results, [call EXCEPT !.freed = d.ret])
    /\ test_pc' = test_pc + 1
    /\ UNCHANGED <<overflow_checks, last, huge_calls, tracker, rounds, loop_vars,
                   ime_vars>>

ScenarioNext ==
    \/ ScenarioStep
    \/ test_pc = Len(ScenarioCalls) + 1 /\ AllocNext

(***************************************************************************)
(* SpecLoop: the dispatch loop of xmain (lines 62-163) and the processes   *)
(* that send it messages                                                   *)
(***************************************************************************)
\* most messages waiting in the server's queue
MaxQueue == 2

\* most characters typed and not yet cleared (the String itself has no cap)
MaxLine == 1

\* most characters one key-matrix scan resolves
MaxKeys == 1

NUL == 0

BS == 8

CR == 13

DEL == 127

SPACE == 32

\* the codes the UART sends: a letter, carriage return, delete, null
UartCodes == { 97, CR, DEL, NUL }

\* the characters kbd.track_keys resolves: a letter, carriage return, null
KeyChars == { 97, CR, NUL }

\* core::char::from_u32(c).unwrap_or('\u{0000}'), line 121
from_u32(c) ==
    IF c > 1114111 \/ (c >= 55296 /\ c <= 57343) THEN NUL ELSE c

\* a scalar message; snapshot is, for a DoCmd, the characters that were
\* pushed between the carriage return before and the one that sent it; mark
\* is set on a message whose way through the queue is followed
Msg(id, arg) == [id |-> id, arg |-> arg, snapshot |-> <<>>, mark |-> FALSE]

DoCmdMsg(typed) ==
    [id |-> "DoCmd", arg |-> 0, snapshot |-> typed, mark |-> FALSE]

\* send_message(cid, ..) of lines 126 and 143 as the kernel carries it out:
\* the scalar message joins the end of the server's queue and the call returns
Enqueue(q, m) == Append(q, m)

\* vectors of at most n characters of KeyChars
RECURSIVE KeyVecs(_)
KeyVecs(n) ==
    IF n = 0 THEN { <<>> }
    ELSE KeyVecs(n - 1) \cup
         { Append(v, c) : v \in { w \in KeyVecs(n - 1) : Len(w) = n - 1 },
                          c \in KeyChars }

Count(v, c) == Cardinality({ i \in 1..Len(v) : v[i] = c })

\* the KeyboardChar messages in q that will push a character
Pushes(q) ==
    Cardinality({ i \in 1..Len(q) :
                    /\ q[i].id = "KeyboardChar"
                    /\ q[i].arg \notin {CR, NUL} })

\* str::split_once(' '), line 75
SplitOnce(str) ==
    IF \E i \in 1..Len(str) : str[i] = SPACE
      THEN LET i == CHOOSE j \in 1..Len(str) :
                       /\ str[j] = SPACE
                       /\ \A k \in 1..(j - 1) : str[k] # SPACE
           IN  [found |-> TRUE, cmd |-> SubSeq(str, 1, i - 1),
                args |-> SubSeq(str, i + 1, Len(str))]
      ELSE [found |-> FALSE, cmd |-> str, args |-> <<>>]

\* "conn", "1" and "0" as code points
StrConn == <<99, 111, 110, 110>>

StrOne == <<49>>

StrZero == <<48>>

\* Execute whose no-argument arm does not know "conn"
ExecuteArgsOnly(str, conn) ==
    LET s == SplitOnce(str)
    IN  IF s.found
          THEN IF s.cmd = StrConn /\ s.args = StrOne THEN TRUE
               ELSE IF s.cmd = StrConn /\ s.args = StrZero THEN FALSE
               ELSE conn
          ELSE conn

\* lines 75-110: the connection state after the command line str is executed
Execute(str, conn) ==
    LET s == SplitOnce(str)
    IN  IF s.found
          THEN IF s.cmd = StrConn /\ s.args = StrOne THEN TRUE
               ELSE IF s.cmd = StrConn /\ s.args = StrZero THEN FALSE
               ELSE conn
          ELSE IF str = StrConn THEN TRUE ELSE conn

\* lines 139-147: the loop over the characters of one scan.  st holds the
\* command line, the characters pushed since the last carriage return and the
\* DoCmd messages sent
RECURSIVE HandleKeys(_, _)
HandleKeys(kc, st) ==
    IF kc = <<>> THEN st
    ELSE LET key == Head(kc)
         IN  IF key # CR
               THEN HandleKeys(Tail(kc),
                        [st EXCEPT !.cmdline = Append(@, key),
                                   !.line = Append(@, key)])
               ELSE HandleKeys(Tail(kc),
                        [st EXCEPT !.sent = Enqueue(@, DoCmdMsg(st.line)),
                                   !.line = <<>>])

LoopInit ==
    /\ pc = "Serving"
    /\ queue = <<>>
    /\ msg = "none"
    /\ cmdline = <<>>
    /\ kbd_suspended = FALSE
    /\ usb_suspended = FALSE
    /\ connected = FALSE
    /\ calls = <<>>
    /\ line = <<>>

\* the server's queue exists until destroy_server (line 160)
ServerAlive == pc \in {"Serving", "Suspended", "ShuttingDown"}

\* a message of another process arrives in the queue
Send(m) ==
    /\ ServerAlive
    /\ Len(queue) < MaxQueue
    /\ queue' = Append(queue, m)
    /\ UNCHANGED <<pc, msg, cmdline, kbd_suspended, usb_suspended, connected, calls,
                   line, alloc_vars, test_vars, ime_vars>>

\* the UART sends a character code
SendKeyboardChar(k) ==
    /\ k \notin {CR, NUL} => Len(cmdline) + Pushes(queue) < MaxLine
    /\ Send(Msg("KeyboardChar", k))

\* the key matrix interrupt asks for a scan
SendHandlerTrigger == Send(Msg("HandlerTrigger", 0))

\* the suspend/resume server announces a suspend
SendSuspendResume == Send(Msg("SuspendResume", 0))

SendQuit == Send(Msg("Quit", 0))

\* a message whose id is no Opcode
SendUnknown == Send(Msg("Unknown", 0))

\* lines 64-65: receive_message returns the oldest message, whose id selects
\* the arm of the match; each handler records it in msg
Receives(id) ==
    /\ pc = "Serving"
    /\ queue # <<>>
    /\ Head(queue).id = id

\* a SuspendResume arm that suspends the devices and does not wait
HandleSuspendResumeNoWait ==
    /\ Receives("SuspendResume")
    /\ msg' = "SuspendResume"
    /\ queue' = Tail(queue)
    /\ kbd_suspended' = TRUE
    /\ usb_suspended' = TRUE
    /\ calls' = <<"kbd.suspend", "usbtest.suspend", "suspend_until_resume">>
    /\ UNCHANGED <<pc, cmdline, connected, line, alloc_vars, test_vars,
                   ime_vars>>

\* lines 66-69: suspend the devices, then block in suspend_until_resume
HandleSuspendResume ==
    /\ Receives("SuspendResume")
    /\ msg' = "SuspendResume"
    /\ queue' = Tail(queue)
    /\ kbd_suspended' = TRUE
    /\ usb_suspended' = TRUE
    /\ calls' = <<"kbd.suspend", "usbtest.suspend", "suspend_until_resume">>
    /\ pc' = "Suspended"
    /\ UNCHANGED <<cmdline, connected, line, alloc_vars, test_vars, ime_vars>>

\* a resume that leaves out usbtest.resume()
ResumeGrantedKbdOnly ==
    /\ pc = "Suspended"
    /\ kbd_suspended' = FALSE
    /\ calls' = calls \o <<"kbd.resume">>
    /\ pc' = "Serving"
    /\ UNCHANGED <<queue, msg, cmdline, usb_suspended, connected, line,
                   alloc_vars, test_vars, ime_vars>>

\* a resume that also starts the allocation table afresh
ResumeGrantedResets ==
    /\ pc = "Suspended"
    /\ kbd_suspended' = FALSE
    /\ usb_suspended' = FALSE
    /\ calls' = calls \o <<"kbd.resume", "usbtest.resume">>
    /\ pc' = "Serving"
    /\ allocs' = EmptyMap
    /\ UNCHANGED <<queue, msg, cmdline, connected, line, overflow_checks,
                   panicked, last, huge_calls, test_vars, ime_vars>>

\* lines 69-71: suspend_until_resume returns, the devices are resumed
ResumeGranted ==
    /\ pc = "Suspended"
    /\ kbd_suspended' = FALSE
    /\ usb_suspended' = FALSE
    /\ calls' = calls \o <<"kbd.resume", "usbtest.resume">>
    /\ pc' = "Serving"
    /\ UNCHANGED <<queue, msg, cmdline, connected, line, alloc_vars, test_vars,
                   ime_vars>>

\* lines 73-112
HandleDoCmd ==
    /\ Receives("DoCmd")
    /\ msg' = "DoCmd"
    /\ queue' = Tail(queue)
    /\ connected' = Execute(cmdline, connected)
    /\ cmdline' = <<>>
    /\ UNCHANGED <<pc, kbd_suspended, usb_suspended, calls, line, alloc_vars,
                   test_vars, ime_vars>>

\* a KeyboardChar arm that sends DoCmd as a blocking scalar: the thread waits
\* for an answer that only its own loop could give
HandleKeyboardCharBlocking ==
    /\ Receives("KeyboardChar")
    /\ msg' = "KeyboardChar"
    /\ LET k == Head(queue).arg
           bs_del_fix == IF k = DEL THEN BS ELSE k
           key == from_u32(bs_del_fix)
       IN  IF key # NUL
             THEN IF key # CR
                    THEN /\ cmdline' = Append(cmdline, key)
                         /\ line' = Append(line, key)
                         /\ queue' = Tail(queue)
                         /\ UNCHANGED pc
                    ELSE /\ queue' = Enqueue(Tail(queue), DoCmdMsg(line))
                         /\ line' = <<>>
                         /\ pc' = "BlockedInSend"
                         /\ UNCHANGED cmdline
             ELSE /\ queue' = Tail(queue)
                  /\ UNCHANGED <<pc, cmdline, line>>
    /\ UNCHANGED <<kbd_suspended, usb_suspended, connected, calls,
                   alloc_vars, test_vars, ime_vars>>

\* lines 114-132
HandleKeyboardChar ==
    /\ Receives("KeyboardChar")
    /\ msg' = "KeyboardChar"
    /\ LET k == Head(queue).arg
           bs_del_fix == IF k = DEL THEN BS ELSE k
           key == from_u32(bs_del_fix)
       IN  IF key # NUL
             THEN IF key # CR
                    THEN /\ cmdline' = Append(cmdline, key)
                         /\ line' = Append(line, key)
                         /\ queue' = Tail(queue)
                    ELSE /\ queue' = Enqueue(Tail(queue), DoCmdMsg(line))
                         /\ line' = <<>>
                         /\ UNCHANGED cmdline
             ELSE /\ queue' = Tail(queue)
                  /\ UNCHANGED <<cmdline, line>>
    /\ UNCHANGED <<pc, kbd_suspended, usb_suspended, connected, calls,
                   alloc_vars, test_vars, ime_vars>>

\* lines 134-148; kc is what kbd.update and kbd.track_keys give
HandleHandlerTrigger ==
    /\ Receives("HandlerTrigger")
    /\ msg' = "HandlerTrigger"
    /\ \E kc \in KeyVecs(MaxKeys) :
          /\ Len(cmdline) + Pushes(queue) + Len(kc) - Count(kc, CR) <= MaxLine
          /\ Len(queue) - 1 + Count(kc, CR) <= MaxQueue
          /\ LET st == HandleKeys(kc, [cmdline |-> cmdline, line |-> line,
                                       sent |-> <<>>])
             IN  /\ cmdline' = st.cmdline
                 /\ line' = st.line
                 /\ queue' = Tail(queue) \o st.sent
    /\ UNCHANGED <<pc, kbd_suspended, usb_suspended, connected, calls,
                   alloc_vars, test_vars, ime_vars>>

\* a Quit arm that logs and goes on serving
HandleQuitContinues ==
    /\ Receives("Quit")
    /\ msg' = "Quit"
    /\ queue' = Tail(queue)
    /\ UNCHANGED <<pc, cmdline, kbd_suspended, usb_suspended, connected, calls,
                   line, alloc_vars, test_vars, ime_vars>>

\* lines 149-152
HandleQuit ==
    /\ Receives("Quit")
    /\ msg' = "Quit"
    /\ queue' = Tail(queue)
    /\ pc' = "ShuttingDown"
    /\ UNCHANGED <<cmdline, kbd_suspended, usb_suspended, connected, calls,
                   line, alloc_vars, test_vars, ime_vars>>

\* an unknown opcode that ends the loop as Quit does
HandleUnknownBreaks ==
    /\ Receives("Unknown")
    /\ msg' = "Unknown"
    /\ queue' = Tail(queue)
    /\ pc' = "ShuttingDown"
    /\ UNCHANGED <<cmdline, kbd_suspended, usb_suspended, connected, calls,
                   line, alloc_vars, test_vars, ime_vars>>

\* lines 153-155
HandleUnknown ==
    /\ Receives("Unknown")
    /\ msg' = "Unknown"
    /\ queue' = Tail(queue)
    /\ UNCHANGED <<pc, cmdline, kbd_suspended, usb_suspended, connected, calls,
                   line, alloc_vars, test_vars, ime_vars>>

\* lines 158-163
CleanUp ==
    /\ pc = "ShuttingDown"
    /\ calls' = <<"unregister_server", "destroy_server", "terminate_process(0)">>
    /\ pc' = "Terminated"
    /\ UNCHANGED <<queue, msg, cmdline, kbd_suspended, usb_suspended,
                   connected, line, alloc_vars, test_vars, ime_vars>>

LoopNext ==
    \/ \E k \in UartCodes : SendKeyboardChar(k)
    \/ SendHandlerTrigger
    \/ SendSuspendResume
    \/ SendQuit
    \/ SendUnknown
    \/ HandleSuspendResume
    \/ ResumeGranted
    \/ HandleDoCmd
    \/ HandleKeyboardChar
    \/ HandleHandlerTrigger
    \/ HandleQuit
    \/ HandleUnknown
    \/ CleanUp

(***************************************************************************)
(* SpecTriggers: the conversions between PredictionTriggers and usize of   *)
(* services/ime-plugin-api/src/lib.rs, lines 10-36                         *)
(***************************************************************************)
\* the largest code a round trip is started from, besides LargeCodes
MaxCode == 40

\* a & b and a | b on non-negative integers
RECURSIVE BitAnd(_, _)
BitAnd(a, b) ==
    IF a = 0 \/ b = 0 THEN 0
    ELSE (a % 2) * (b % 2) + 2 * BitAnd(a \div 2, b \div 2)

RECURSIVE BitOr(_, _)
BitOr(a, b) ==
    IF a = 0 THEN b
    ELSE IF b = 0 THEN a
    ELSE (IF a % 2 = 1 \/ b % 2 = 1 THEN 1 ELSE 0)
           + 2 * BitOr(a \div 2, b \div 2)

\* struct PredictionTriggers, lines 11-18
PredictionTriggers ==
    [trigger_newline : BOOLEAN, trigger_punctuation : BOOLEAN,
     trigger_whitespace : BOOLEAN]

\* #[derive(Default)], line 10
DefaultTriggers ==
    [trigger_newline |-> FALSE, trigger_punctuation |-> FALSE,
     trigger_whitespace |-> FALSE]

\* impl Into<usize> for PredictionTriggers, lines 19-27
into(self) ==
    LET r0 == 0
        r1 == IF self.trigger_newline THEN BitOr(r0, 1) ELSE r0
        r2 == IF self.trigger_punctuation THEN BitOr(r1, 2) ELSE r1
        r3 == IF self.trigger_whitespace THEN BitOr(r2, 4) ELSE r2
    IN  r3

\* a From<usize> that reads punctuation and whitespace from each other's bit
from_swapped(c) ==
    [trigger_newline |-> BitAnd(c, 1) # 0,
     trigger_punctuation |-> BitAnd(c, 4) # 0,
     trigger_whitespace |-> BitAnd(c, 2) # 0]

\* impl From<usize> for PredictionTriggers, lines 28-36
from(c) ==
    [trigger_newline |-> BitAnd(c, 1) # 0,
     trigger_punctuation |-> BitAnd(c, 2) # 0,
     trigger_whitespace |-> BitAnd(c, 4) # 0]

\* codes with high bits set, up to the largest of a 31-bit word
LargeCodes == { 255, 256, 65535, 65536, 2147483640, 2147483647 }

Codes == (0..MaxCode) \cup LargeCodes

\* no conversion is under way
ImeIdle ==
    /\ ime_pc = "idle"
    /\ triggers = DefaultTriggers
    /\ code = 0
    /\ given = [triggers |-> DefaultTriggers, code |-> 0]

\* a round trip starts from a PredictionTriggers value or from a code
ImeInit ==
    \/ /\ ime_pc = "t_start"
       /\ triggers \in PredictionTriggers
       /\ code = 0
       /\ given = [triggers |-> triggers, code |-> 0]
    \/ /\ ime_pc = "c_start"
       /\ triggers = DefaultTriggers
       /\ code \in Codes
       /\ given = [triggers |-> DefaultTriggers, code |-> code]

\* let code: usize = triggers.into()
ImeInto ==
    /\ ime_pc \in {"t_start", "c_decoded"}
    /\ code' = into(triggers)
    /\ ime_pc' = IF ime_pc = "t_start" THEN "t_encoded" ELSE "c_done"
    /\ UNCHANGED <<triggers, given, alloc_vars, test_vars, loop_vars>>

\* let triggers = PredictionTriggers::from(code)
ImeFrom ==
    /\ ime_pc \in {"c_start", "t_encoded"}
    /\ triggers' = from(code)
    /\ ime_pc' = IF ime_pc = "c_start" THEN "c_decoded" ELSE "t_done"
    /\ UNCHANGED <<code, given, alloc_vars, test_vars, loop_vars>>

ImeNext == ImeInto \/ ImeFrom

(***************************************************************************)
(* The specifications                                                      *)
(***************************************************************************)
\* the service is started; the allocator is not called by this file's loop
InitLoop ==
    AllocInit /\ overflow_checks = FALSE /\ TestIdle /\ LoopInit /\ ImeIdle

InitTriggers ==
    AllocInit /\ overflow_checks = FALSE /\ TestIdle /\ LoopInit /\ ImeInit

SpecTriggers == InitTriggers /\ [][ImeNext]_vars

SpecLoop == InitLoop /\ [][LoopNext]_vars

\* the codes of a typed command: a letter and carriage return
TypedCodes == { 97, CR }

\* one DoCmd waiting in the queue is picked to be followed; the program's
\* state is not changed by this
FollowDoCmd ==
    /\ \A i \in 1..Len(queue) : ~queue[i].mark
    /\ \E i \in 1..Len(queue) :
          /\ queue[i].id = "DoCmd"
          /\ queue' = [queue EXCEPT ![i].mark = TRUE]
    /\ UNCHANGED <<pc, msg, cmdline, kbd_suspended, usb_suspended, connected,
                   calls, line, alloc_vars, test_vars, ime_vars>>

\* the loop with typed commands, key-matrix scans, suspends and Quit
FairNext ==
    \/ \E k \in TypedCodes : SendKeyboardChar(k)
    \/ SendHandlerTrigger
    \/ SendSuspendResume
    \/ SendQuit
    \/ FollowDoCmd
    \/ HandleSuspendResume
    \/ ResumeGranted
    \/ HandleDoCmd
    \/ HandleKeyboardChar
    \/ HandleHandlerTrigger
    \/ HandleQuit
    \/ CleanUp

\* line 64: the dispatch thread runs when a message is waiting for it
LoopStep ==
    \/ HandleSuspendResume
    \/ HandleDoCmd
    \/ HandleKeyboardChar
    \/ HandleHandlerTrigger
    \/ HandleQuit

\* the loop where the suspend/resume server grants every pending wait its
\* resume permission, so that suspend_until_resume (line 69) returns
SpecCycleFair == InitLoop /\ [][FairNext]_vars /\ WF_vars(ResumeGranted)

\* the same, and the dispatch thread is scheduled whenever it can receive
SpecLoopFair ==
    InitLoop /\ [][FairNext]_vars /\ WF_vars(ResumeGranted) /\ WF_vars(LoopStep)

InitTest == TestInit /\ LoopInit /\ ImeIdle

SpecTest == InitTest /\ [][TestNext]_vars

InitScenario == TestInit /\ LoopInit /\ ImeIdle

SpecScenario == InitScenario /\ [][ScenarioNext]_vars

(***************************************************************************)
(* SpecCycle: the dispatch loop running with regions allocated             *)
(***************************************************************************)
\* the service is started and the hardware layer has made two allocations,
\* of 100 and of 64 bytes
InitCycle ==
    /\ overflow_checks = FALSE
    /\ panicked = FALSE
    /\ huge_calls = 0
    /\ LET first == alloc_inner(EmptyMap, ToU32(100), FALSE)
           second == alloc_inner(first.allocs, ToU32(64), FALSE)
       IN  /\ allocs = second.allocs
           /\ last = [op |-> "allocate", arg |-> ToU32(64), ret |-> second.ret,
                      freed |-> FALSE, before |-> first.allocs]
    /\ TestIdle
    /\ LoopInit
    /\ ImeIdle

SpecCycle == InitCycle /\ [][LoopNext]_vars

(***************************************************************************)
(* SpecCmd: the DoCmd arm (lines 73-112) applied to typed command lines    *)
(***************************************************************************)
\* command lines as code points: "conn 1", "conn 0", "conn", "conn 2",
\* "conn 1 ", "conn  1", " conn", "conn ", "conn1", "test 1", "test", "regs",
\* "help", "x 1", "1", "0" and the empty line
CommandLines ==
    { <<99, 111, 110, 110, 32, 49>>, <<99, 111, 110, 110, 32, 48>>,
      <<99, 111, 110, 110>>, <<99, 111, 110, 110, 32, 50>>,
      <<99, 111, 110, 110, 32, 49, 32>>, <<99, 111, 110, 110, 32, 32, 49>>,
      <<32, 99, 111, 110, 110>>, <<99, 111, 110, 110, 32>>,
      <<99, 111, 110, 110, 49>>, <<116, 101, 115, 116, 32, 49>>,
      <<116, 101, 115, 116>>, <<114, 101, 103, 115>>,
      <<104, 101, 108, 112>>, <<120, 32, 49>>, <<49>>, <<48>>, <<>> }

\* a command line was typed on the UART and its carriage return handled: the
\* DoCmd the loop sent to itself is the next message
InitCmd ==
    /\ AllocInit /\ overflow_checks = FALSE
    /\ TestIdle
    /\ pc = "Serving"
    /\ cmdline \in CommandLines
    /\ line = <<>>
    /\ queue = << DoCmdMsg(cmdline) >>
    /\ msg = "KeyboardChar"
    /\ connected \in BOOLEAN
    /\ kbd_suspended = FALSE
    /\ usb_suspended = FALSE
    /\ calls = <<>>
    /\ ImeIdle

\* further messages arrive; the loop executes the command
CmdNext ==
    \/ \E k \in UartCodes : SendKeyboardChar(k)
    \/ SendHandlerTrigger
    \/ SendSuspendResume
    \/ SendQuit
    \/ SendUnknown
    \/ HandleDoCmd

SpecCmd == InitCmd /\ [][CmdNext]_vars

Init == AllocInit /\ TestIdle /\ LoopInit /\ ImeIdle

Next == AllocNext

Spec == Init /\ [][Next]_vars

(***************************************************************************)
(* Properties of the allocator                                             *)
(***************************************************************************)
\* off + len <= limit as integers (no wrap-around)
EndsBy(off, len, limit) ==
    LET s == Add(off, len) IN ~s.overflow /\ Le(s.val, limit)

Called(op) == last.op = op

ReturnedNone == ~panicked /\ ~last.ret.some

ReturnedSome == ~panicked /\ last.ret.some

\* the extent [k, k + round_up16(length)) of entry k of m lies clear of
\* [o, o + requested)
ClearOf(m, k, o, requested) ==
    \/ EndsBy(o, requested, k)
    \/ EndsBy(k, RoundLength(m[k]).val, o) /\ ~RoundLength(m[k]).overflow

\* [o, o + requested) is a 16-aligned place inside start..end that meets no
\* live region of m
FreeAt(m, o, requested) ==
    /\ LowNibble(o) = 0
    /\ Le(START_OFFSET, o)
    /\ EndsBy(o, requested, END_OFFSET)
    /\ \A k \in DOMAIN m : ClearOf(m, k, o, requested)

\* the places a first-fit search can choose: start, and the end of each region
\* that ends inside the u32 range
Candidates(m) ==
    {START_OFFSET} \cup
    { Add(k, RoundLength(m[k]).val).val : k \in
        { j \in DOMAIN m : /\ ~RoundLength(m[j]).overflow
                           /\ ~Add(j, RoundLength(m[j]).val).overflow } }

\* some gap or the tail of m can hold requested bytes
Fits(m, requested) == \E o \in Candidates(m) : FreeAt(m, o, requested)

\* C1: no two live regions overlap: for live entries with offset_i < offset_j,
\* offset_i + length_i <= offset_j
C1_NonOverlap ==
    \A i, j \in DOMAIN allocs : Lt(i, j) => EndsBy(i, allocs[i], j)

\* C2: every offset returned by allocate, and every key of the table, is a
\* multiple of 16
C2_Alignment ==
    /\ \A k \in DOMAIN allocs : LowNibble(k) = 0
    /\ (Called("allocate") /\ last.ret.some) => LowNibble(last.ret.val) = 0

\* an offset was returned that lies above a region of unaligned length
C2_Witness ==
    /\ Called("allocate") /\ ReturnedSome
    /\ \E k \in DOMAIN last.before :
          LowNibble(last.before[k]) # 0 /\ Lt(k, last.ret.val)

\* C3: for every u32 request, allocate returns None and leaves the table
\* unchanged when neither a gap nor the tail can hold the request
C3_Exhaustion ==
    (Called("allocate") /\ ~Fits(last.before, last.arg))
        => (ReturnedNone /\ allocs = last.before)

\* C4: allocate(0) returns None and leaves the table as it was
C4_ZeroSize ==
    (Called("allocate") /\ last.arg = ToU32(0))
        => (ReturnedNone /\ allocs = last.before)

\* allocate(0) was called on a table with live entries
C4_Witness ==
    /\ Called("allocate") /\ last.arg = ToU32(0)
    /\ Cardinality(DOMAIN last.before) = MaxAllocs

\* C5: free(offset) returns true exactly when offset is a live base, and then
\* removes that entry and no other; otherwise it leaves the table unchanged
C5_Free ==
    Called("free") =>
        /\ last.freed <=> last.arg \in DOMAIN last.before
        /\ last.freed =>
              /\ DOMAIN allocs = (DOMAIN last.before) \ {last.arg}
              /\ \A k \in DOMAIN allocs : allocs[k] = last.before[k]
        /\ ~last.freed => allocs = last.before

\* free was called with an interior address of a live region
C5_Witness ==
    /\ Called("free") /\ ~last.freed
    /\ \E k \in DOMAIN last.before :
          /\ Lt(k, last.arg)
          /\ ~EndsBy(k, last.before[k], last.arg)
    /\ allocs # EmptyMap

\* C6: a successful allocate returns the lowest 16-aligned offset at or above
\* start whose range ends by end and meets no live region's rounded extent;
\* allocate returns None only if there is no such offset
C6_FirstFit ==
    (Called("allocate") /\ last.arg # ToU32(0)) =>
        /\ ~panicked
        /\ last.ret.some =>
              /\ FreeAt(last.before, last.ret.val, last.arg)
              /\ \A o \in Candidates(last.before) :
                    FreeAt(last.before, o, last.arg) => Le(last.ret.val, o)
        /\ ~last.ret.some => ~Fits(last.before, last.arg)

(***************************************************************************)
(* The scenario of section 8 (SpecScenario)                                *)
(***************************************************************************)
Returned(n) == [op |-> "alloc", ret |-> Some(ToU32(n))]

ReturnedNothing == [op |-> "alloc", ret |-> None]

Freed(b) == [op |-> "dealloc", freed |-> b]

\* what call i of the scenario gave: an offset, None, or free's boolean
Outcome(i) ==
    IF results[i].op = "alloc"
      THEN [op |-> "alloc", ret |-> results[i].ret]
      ELSE [op |-> "dealloc", freed |-> results[i].freed]

\* the first eight results, as stated by the scenario
FirstEight ==
    << Returned(80), Returned(208), Returned(272), Returned(528),
       Returned(656), Returned(784), ReturnedNothing, Freed(TRUE) >>

\* C7 as stated: on an empty table allocate(128) = Some(80), allocate(64) =
\* Some(208), allocate(256) = Some(272), allocate(128) = Some(528), Some(656),
\* Some(784), allocate(65280) = None, free(208) = true, then allocate(128) =
\* Some(208), free(656) = true and allocate(128) = Some(656)
C7_ScenarioAsStated ==
    \A i \in 1..Len(results) :
        /\ i <= 8 => Outcome(i) = FirstEight[i]
        /\ i = 9 => Outcome(i) = Returned(208)
        /\ i = 10 => Outcome(i) = Freed(TRUE)
        /\ i = 11 => Outcome(i) = Returned(656)

\* C7 amended: the same, but the allocate(128) that follows free(208) returns
\* Some(912): the hole at 208 is 64 bytes long and cannot hold 128 bytes, so
\* the region is placed at the tail
C7_Scenario ==
    \A i \in 1..Len(results) :
        /\ i <= 8 => Outcome(i) = FirstEight[i]
        /\ i = 9 => Outcome(i) = Returned(912)
        /\ i = 10 => Outcome(i) = Freed(TRUE)
        /\ i = 11 => Outcome(i) = Returned(656)

\* the eleven calls of the scenario were made
C7_Witness == Len(results) = 11 /\ test_pc = 12 /\ ~panicked

(***************************************************************************)
(* Properties of the dispatch loop (SpecLoop)                              *)
(***************************************************************************)
\* calls is the start of order, as far as the cycle has come
CycleFollows(order) ==
    (calls # <<>> /\ calls[1] = "kbd.suspend") =>
        /\ Len(calls) <= Len(order)
        /\ \A i \in 1..Len(calls) : calls[i] = order[i]
        /\ pc = "Suspended" => Len(calls) = 3
        /\ pc = "Serving" => Len(calls) = Len(order)

\* C8: a suspend cycle calls kbd.suspend(), usbtest.suspend(), blocks in the
\* wait, and then resumes in the reverse order, usbtest.resume() before
\* kbd.resume()
C8_ReverseResume ==
    CycleFollows(<<"kbd.suspend", "usbtest.suspend", "suspend_until_resume",
                   "usbtest.resume", "kbd.resume">>)

\* C9: the command executed for a carriage return is exactly the characters
\* pushed since the carriage return before it: when a DoCmd is the next message
\* dispatched, the command line it will execute is the line that sent it
C9_LineCompletion ==
    (pc = "Serving" /\ queue # <<>> /\ Head(queue).id = "DoCmd")
        => cmdline = Head(queue).snapshot

\* the string without its last character, if it has one
DropLast(str) == IF str = <<>> THEN <<>> ELSE SubSeq(str, 1, Len(str) - 1)

\* C10: when the loop handles the UART code 0x7f, the last character of the
\* command line is removed; an empty command line stays empty
C10_Backspace ==
    [][(Receives("KeyboardChar") /\ Head(queue).arg = DEL
            /\ Len(queue') = Len(queue) - 1)
        => cmdline' = DropLast(cmdline)]_vars

\* C11: in every reachable state of the dispatch loop the command line holds
\* no null character and no carriage return, whichever source the characters
\* came from (a UART code or the characters of a key-matrix scan)
C11_NoNullNoCR ==
    \A i \in 1..Len(cmdline) : cmdline[i] \notin {NUL, CR}

(***************************************************************************)
(* Properties of command execution (SpecCmd)                               *)
(***************************************************************************)
\* a message of another process joins the end of the queue
Arrival ==
    Len(queue') = Len(queue) + 1 /\ SubSeq(queue', 1, Len(queue)) = queue

\* q without the marks
Unmarked(q) == [i \in 1..Len(q) |-> [q[i] EXCEPT !.mark = FALSE]]

\* a waiting message is picked to be followed
Followed == queue' # queue /\ Unmarked(queue') = Unmarked(queue)

\* a step of the dispatch thread on the message at the head of the queue
Dispatches(id) == Receives(id) /\ ~Arrival /\ ~Followed

\* C12: processing a DoCmd keeps the loop in Serving and leaves the command
\* line empty; "conn 1" and "conn" connect the device core, "conn 0"
\* disconnects it, and every other line leaves the connection as it was
C12_DoCmd ==
    [][Dispatches("DoCmd") =>
          /\ pc' = "Serving"
          /\ cmdline' = <<>>
          /\ connected' =
                IF cmdline \in { StrConn \o <<SPACE>> \o StrOne, StrConn }
                  THEN TRUE
                  ELSE IF cmdline = StrConn \o <<SPACE>> \o StrZero
                         THEN FALSE
                         ELSE connected]_vars

\* a DoCmd was processed with the device core connected afterwards and a
\* message waiting behind it
C12_Witness ==
    msg = "DoCmd" /\ connected /\ cmdline = <<>> /\ queue # <<>>

(***************************************************************************)
(* Properties of the loop's life cycle (SpecLoop)                          *)
(***************************************************************************)
\* C13: a message whose opcode is not a known one is skipped: the loop stays
\* in Serving, and the command line, the suspend state of the devices, the
\* connection state and the messages waiting behind it are unchanged
C13_UnknownSkipped ==
    [][Dispatches("Unknown") =>
          /\ pc' = "Serving"
          /\ queue' = Tail(queue)
          /\ UNCHANGED <<cmdline, kbd_suspended, usb_suspended, connected>>]_vars

\* an unknown message was skipped with a character typed and a message waiting
C13_Witness ==
    msg = "Unknown" /\ pc = "Serving" /\ cmdline # <<>> /\ queue # <<>>

\* the loop of xmain is running (waiting for a message, handling one, or
\* blocked in the suspend wait)
InLoop(p) == p \in {"Serving", "Suspended"}

\* C14: a dispatched Quit takes the loop out of Serving and no message is
\* dispatched after it, those queued behind it included; the clean-up then
\* unregisters the name, destroys the queue and terminates the process with
\* status 0, in that order, and ends in Terminated; no message other than
\* Quit takes the loop out of Serving
C14_Shutdown ==
    [][/\ Dispatches("Quit") => pc' = "ShuttingDown"
       /\ (InLoop(pc) /\ ~InLoop(pc')) =>
              (Dispatches("Quit") /\ pc' = "ShuttingDown")
       /\ ~InLoop(pc) =>
              /\ msg' = msg
              /\ queue' = queue \/ Arrival
              /\ UNCHANGED <<cmdline, connected, kbd_suspended, usb_suspended>>
       /\ (pc = "ShuttingDown" /\ pc' # pc) =>
              /\ pc' = "Terminated"
              /\ calls' = <<"unregister_server", "destroy_server",
                            "terminate_process(0)">>
       /\ pc = "Terminated" => pc' = "Terminated"]_vars

\* the process has terminated with the messages queued behind Quit never
\* dispatched
C14_Witness ==
    /\ pc = "Terminated"
    /\ msg = "Quit"
    /\ queue # <<>>
    /\ calls = <<"unregister_server", "destroy_server", "terminate_process(0)">>

\* C15: while the dispatch thread is blocked in the suspend wait no message
\* is processed, a Quit included; the wait ends with resume() called on both
\* devices, so the loop is never shutting down with a device suspended; and
\* messages, those queued during the wait included, are dispatched in the
\* order they arrived
C15_NoInterrupt ==
    [][/\ pc = "Suspended" =>
              /\ msg' = msg
              /\ queue' = queue \/ Arrival
              /\ UNCHANGED <<cmdline, connected>>
              /\ pc' # pc =>
                    /\ pc' = "Serving"
                    /\ queue' = queue
                    /\ ~kbd_suspended' /\ ~usb_suspended'
       /\ ~InLoop(pc') => (~kbd_suspended' /\ ~usb_suspended')
       /\ (queue' # queue /\ ~Arrival) =>
              /\ pc = "Serving" /\ queue # <<>>
              /\ msg' = Head(queue).id
              /\ Len(queue') >= Len(queue) - 1
              /\ SubSeq(queue', 1, Len(queue) - 1) = Tail(queue)]_vars

\* the thread is blocked in the wait with a Quit and another message queued
C15_Witness ==
    /\ pc = "Suspended"
    /\ kbd_suspended /\ usb_suspended
    /\ Len(queue) >= 2
    /\ Head(queue).id = "Quit"

(***************************************************************************)
(* Properties of the suspend cycle with regions allocated (SpecCycle)      *)
(***************************************************************************)
\* the DoCmd messages in q
DoCmds(q) == Cardinality({ i \in 1..Len(q) : q[i].id = "DoCmd" })

\* C16: a suspend cycle, from the dispatch of SuspendResume to the return of
\* the wait and the resumes, leaves the allocation table and the partially
\* typed command line as they were, and enqueues no DoCmd
C16_CycleTransparent ==
    [][(Dispatches("SuspendResume") \/ pc = "Suspended") =>
          /\ UNCHANGED <<allocs, cmdline>>
          /\ DoCmds(queue') <= DoCmds(queue)]_vars

\* a cycle is complete, with regions allocated and a character typed
C16_Witness ==
    /\ pc = "Serving" /\ msg = "SuspendResume"
    /\ Len(calls) = 5 /\ calls[1] = "kbd.suspend"
    /\ cmdline # <<>>
    /\ Cardinality(DOMAIN allocs) = 2

(***************************************************************************)
(* Properties of the PredictionTriggers conversions (SpecTriggers)         *)
(***************************************************************************)
\* 1 if b, else 0
BitOf(b) == IF b THEN 1 ELSE 0

\* C17: converting a PredictionTriggers value to usize and back gives the
\* value again, with newline in bit 0, punctuation in bit 1 and whitespace in
\* bit 2 of the code; converting a code to PredictionTriggers and back gives
\* the low three bits of the code, code & 0x7
C17_RoundTrip ==
    /\ ime_pc = "t_encoded" =>
          code = BitOf(given.triggers.trigger_newline)
                   + 2 * BitOf(given.triggers.trigger_punctuation)
                   + 4 * BitOf(given.triggers.trigger_whitespace)
    /\ ime_pc = "t_done" => triggers = given.triggers
    /\ ime_pc = "c_done" => code = given.code % 8

\* a code with bits above the third set went through From and Into and came
\* back without them
C17_Witness ==
    ime_pc = "c_done" /\ given.code > 7 /\ code \in 1..6

(***************************************************************************)
(* Further properties of the allocator (Spec)                              *)
(***************************************************************************)
\* j is the entry that follows i in ascending order
Consecutive(m, i, j) ==
    Lt(i, j) /\ ~\E k \in DOMAIN m : Lt(i, k) /\ Lt(k, j)

\* C18: consecutive entries in ascending order satisfy
\* offset_i + round_up16(length_i) <= offset_{i+1}, and the assertion
\* offset >= cursor in the scan of allocate never fails (with overflow wrapping,
\* that assertion is the only panic of the allocator)
C18_TableInvariant ==
    /\ \A i, j \in DOMAIN allocs :
          Consecutive(allocs, i, j) =>
              /\ ~RoundLength(allocs[i]).overflow
              /\ EndsBy(i, RoundLength(allocs[i]).val, j)
    /\ ~overflow_checks => ~panicked

\* C19: every live region lies inside the address range:
\* start <= offset and offset + length <= end
C19_Bounds ==
    \A k \in DOMAIN allocs :
        Le(START_OFFSET, k) /\ EndsBy(k, allocs[k], END_OFFSET)

\* C20: a successful allocate(requested) = Some(o) adds exactly one entry,
\* keyed by o, which was not a live base before, and storing requested; every
\* entry that was live keeps its offset and length
C20_AllocateFrame ==
    (Called("allocate") /\ ReturnedSome) =>
        /\ last.ret.val \notin DOMAIN last.before
        /\ DOMAIN allocs = (DOMAIN last.before) \cup {last.ret.val}
        /\ allocs[last.ret.val] = last.arg
        /\ \A k \in DOMAIN last.before : allocs[k] = last.before[k]

(***************************************************************************)
(* Properties of the suspend cycle under fairness (SpecCycleFair)          *)
(***************************************************************************)
\* C21: while the loop waits for the next message no device is suspended;
\* suspend() and resume() of each device alternate, starting with suspend():
\* suspend() is called only on a device that is not suspended, resume() only
\* on one that is, and nothing else changes that; and, given that every wait
\* is granted its resume permission, a dispatched SuspendResume is followed by
\* the resume of both devices and the return to Serving
C21_CycleCompletes ==
    /\ [](pc = "Serving" => (~kbd_suspended /\ ~usb_suspended))
    /\ [][/\ Dispatches("SuspendResume") =>
                /\ ~kbd_suspended /\ ~usb_suspended
                /\ kbd_suspended' /\ usb_suspended'
                /\ pc' = "Suspended"
          /\ (pc = "Suspended" /\ pc' # pc) =>
                /\ kbd_suspended /\ usb_suspended
                /\ ~kbd_suspended' /\ ~usb_suspended'
                /\ pc' = "Serving"
          /\ (kbd_suspended' # kbd_suspended \/ usb_suspended' # usb_suspended)
                => (Dispatches("SuspendResume") \/ pc = "Suspended")]_vars
    /\ (pc = "Suspended") ~>
          (pc = "Serving" /\ ~kbd_suspended /\ ~usb_suspended)

\* a cycle has run to its end while a message was waiting
C21_Witness ==
    /\ pc = "Serving" /\ msg = "SuspendResume"
    /\ calls = <<"kbd.suspend", "usbtest.suspend", "suspend_until_resume",
                 "kbd.resume", "usbtest.resume">>
    /\ ~kbd_suspended /\ ~usb_suspended
    /\ queue # <<>>

(***************************************************************************)
(* Properties of the self-sent DoCmd under fairness (SpecLoopFair)         *)
(***************************************************************************)
\* the followed message waits in the queue with no Quit in front of it
FollowedWaits ==
    \E i \in 1..Len(queue) :
        /\ queue[i].mark
        /\ \A j \in 1..(i - 1) : queue[j].id # "Quit"

====
